---- MODULE Spec2Model ----
(***************************************************************************)
(* The command actor of master/internal/command/command.go and the        *)
(* checkpoint GC task actor as state machines.  One action per message an  *)
(* actor's Receive handles; every handler is a function from the actor's   *)
(* fields to its new fields and the ordered list of calls it makes on its  *)
(* collaborators (event stream, resource manager, proxy, session store,    *)
(* allocation, timer).  Spec runs the command, SpecGC the GC task.         *)
(***************************************************************************)
EXTENDS Integers, Sequences, FiniteSets

(* ------------------------------ bounds --------------------------------- *)
\* Messages delivered to an actor in one run; PreStart, PostStop, getSummary
\* and the timer's terminateForGC are not counted.
MaxMsgs == 4
\* Largest len(msg.Allocations) of a ResourcesAllocated message.
MaxAllocations == 2
\* Number of distinct readiness check names.
MaxChecks == 2
\* Largest number of addresses of a ContainerStarted report.
MaxAddresses == 1

(* ------------------------------ values --------------------------------- *)
\* A nil pointer / nil interface / nil slice: the empty sequence; a set
\* pointer is the one-element sequence holding the value.
Nil == <<>>
Ptr(x) == <<x>>

\* c.taskID, fixed at construction.
taskID == "T1"
\* The task IDs a ResourcesAllocated may carry.
TaskIDs == {"T1", "T2"}
\* The username of the command's owner, and the filters a getSummary may
\* carry: none, the owner's name, somebody else's.
ownerUsername == "alice"
UserFilters == {"", "alice", "bob"}
\* The ID sproto.NewTaskID() gives the GC task, and the IDs a
\* ResourcesAllocated delivered to it may carry.
gcTaskID == "G1"
GCTaskIDs == {"G1", "G2"}

\* container.State, in the order the runtime reports them.
ContainerStates == <<"ASSIGNED", "PULLING", "STARTING", "RUNNING", "TERMINATED">>
Running == "RUNNING"
Terminated == "TERMINATED"

\* The exit status strings.
ExitedSuccessfully == "command exited successfully"
AbortedUnscheduled == "task is aborted without being scheduled"
FailureError == "container failed"

\* The names of the readiness checks (a command registers the first k of
\* them); a log line is the set of registered checks whose predicate it
\* satisfies.
CheckNames == 1..MaxChecks
check(name, log) == name \in log

\* One call on a collaborator: the receiver and the message.
Tell(to, msg) == [to |-> to, msg |-> msg]
EvScheduled == Tell("eventStream", "ScheduledEvent")
EvAssigned == Tell("eventStream", "AssignedEvent")
EvContainerStarted == Tell("eventStream", "ContainerStartedEvent")
EvServiceReady == Tell("eventStream", "ServiceReadyEvent")
EvLog == Tell("eventStream", "LogEvent")
EvExited == Tell("eventStream", "ExitedEvent")
EvTerminateRequest == Tell("eventStream", "TerminateRequestEvent")
RMAllocateRequest == Tell("rm", "AllocateRequest")
RMSetGroupPriority == Tell("rm", "SetGroupPriority")
RMResourcesReleased == Tell("rm", "ResourcesReleased")
NotifyAfter == Tell("timer", "terminateForGC")
DBStartTaskSession == Tell("db", "StartTaskSession")
DBDeleteTaskSession == Tell("db", "DeleteTaskSessionByTaskID")
ProxyRegister == Tell("proxy", "Register")
ProxyUnregister == Tell("proxy", "Unregister")
AllocationStart == Tell("allocation", "Start")
AllocationKill == Tell("allocation", "Kill")
Respond == Tell("sender", "Respond")
SelfStop == Tell("self", "Stop")

\* The calls counted over the whole run.
Counted ==
    { EvExited, EvServiceReady, RMResourcesReleased, NotifyAfter,
      DBStartTaskSession, DBDeleteTaskSession, AllocationStart }

Calls ==
    { EvScheduled, EvAssigned, EvContainerStarted, EvServiceReady, EvLog, EvExited,
      EvTerminateRequest,
      RMAllocateRequest, RMSetGroupPriority, RMResourcesReleased, NotifyAfter,
      DBStartTaskSession, DBDeleteTaskSession, ProxyRegister, ProxyUnregister,
      AllocationStart, AllocationKill, Respond, SelfStop }

\* Number of occurrences of call e in the sequence s.
Occurrences(s, e) == Cardinality({i \in DOMAIN s : s[i] = e})
\* The positions of call e in the sequence s.
Positions(s, e) == {i \in DOMAIN s : s[i] = e}
\* n copies of x.
Repeat(x, n) == [i \in 1..n |-> x]

(* ------------------------------- state --------------------------------- *)
VARIABLES
    c,          \* the command struct's fields
    lifecycle,  \* the actor: "new", "active", "stopping" (PostStop due), "stopped"
    sessions,   \* the session store: the task IDs that have a session row
    runtime,    \* one entry per started container: 0, or the index in
                \* ContainerStates of the last state it reported
    timers,     \* terminateForGC messages armed and not yet delivered
    sent,       \* per counted call, how many times it was made over the run
    stepOut,    \* the calls of the last handler, in order
    hist        \* the run so far:
                \*   lastMsg: the type of the last message handled
                \*   lastID: the ID of the last ResourcesAllocated
                \*   lastLen: the number of allocations of the
                \*     ResourcesAllocated just handled, 0 after any other message
                \*   err: the error the last handler returned, "" for nil
                \*   startFailed: the store refused the StartTaskSession of
                \*     the last handler
                \*   lastState, lastFailure: the container state and the
                \*     failure of the last TaskContainerStateChanged
                \*   lastFilter: the filter of the getSummary just handled,
                \*     nil after any other message
                \*   msgs: messages delivered, getSummary and the timer's
                \*     terminateForGC aside
                \*   matched: a ResourcesAllocated with the task's ID was delivered
                \*   succession: a Kill was handled right after a Kill
                \*   killedUnallocated: a Kill was handled before any matching
                \*     ResourcesAllocated was delivered
                \*   registered: the readiness checks given at construction
                \*   logged: a log line was handled
                \*   seen: the checks satisfied by some line handled so far

\* The checkpoint GC task actor.
VARIABLES
    t,          \* the checkpointGCTask struct's fields
    tLifecycle, \* the actor, as lifecycle
    tSessions,  \* the session store, as sessions
    tRuntime,   \* the containers the task started, as runtime
    tOut,       \* the calls of the task's last handler, in order
    tHist       \* the task's run so far:
                \*   lastMsg: the type of the last message handled
                \*   lastID: the ID of the last ResourcesAllocated
                \*   lastState: the state of the last container report
                \*   err: the error the last handler returned, "" for nil
                \*   msgs: messages delivered

cmdVars == <<c, lifecycle, sessions, runtime, timers, sent, stepOut, hist>>
gcVars == <<t, tLifecycle, tSessions, tRuntime, tOut, tHist>>
vars == <<cmdVars, gcVars>>

\* The result of a handler: the fields, the calls made so far, the error
\* (or panic) it ended with.
Result(fields, out, err) == [c |-> fields, out |-> out, err |-> err]
Emit(r, calls) == [r EXCEPT !.out = @ \o calls]

(* --------------------------- session store ----------------------------- *)
\* db.StartTaskSession: on success the store holds a session row for id.
StartTaskSession(store, id, err) == IF err THEN store ELSE store \cup {id}
\* db.DeleteTaskSessionByTaskID: idempotent, a missing row is no error.
DeleteTaskSessionByTaskID(store, id) == store \ {id}

\* The store after the session calls of one handler, in the order made.
RECURSIVE SessionsAfter(_, _, _, _)
SessionsAfter(store, out, id, err) ==
    IF out = <<>> THEN store
    ELSE LET next == IF Head(out) = DBStartTaskSession THEN StartTaskSession(store, id, err)
                     ELSE IF Head(out) = DBDeleteTaskSession
                          THEN DeleteTaskSessionByTaskID(store, id)
                          ELSE store
         IN SessionsAfter(next, Tail(out), id, err)

(* ------------------------------ handlers ------------------------------- *)
\* exit without the deletion of the task session.
exit_NoSessionDelete(r, exitStatus) ==
    Emit([r EXCEPT !.c.exitStatus = Ptr(exitStatus)],
         <<EvExited, RMResourcesReleased, NotifyAfter>>)

\* exit that arms no GC timer.
exit_NoTimer(r, exitStatus) ==
    LET r1 == Emit([r EXCEPT !.c.exitStatus = Ptr(exitStatus)],
                   <<EvExited, RMResourcesReleased>>)
    IN IF r1.c.task # Nil THEN Emit(r1, <<DBDeleteTaskSession>>) ELSE r1

\* command.exit
exit(r, exitStatus) ==
    LET r1 == Emit([r EXCEPT !.c.exitStatus = Ptr(exitStatus)],
                   <<EvExited, RMResourcesReleased, NotifyAfter>>)
    IN IF r1.c.task # Nil THEN Emit(r1, <<DBDeleteTaskSession>>) ELSE r1

\* terminate that exits at once also when an allocation is held.
terminate_ExitsWhenAllocated(r, msg) ==
    IF r.c.allocation = Nil
    THEN exit(r, AbortedUnscheduled)
    ELSE exit(Emit(r, <<AllocationKill>>), AbortedUnscheduled)

\* terminate that, without an allocation, waits for the grant.
terminate_WaitsForGrant(r, msg) ==
    IF r.c.allocation = Nil THEN r ELSE Emit(r, <<AllocationKill>>)

\* command.terminate; msg is the type of the message being handled.
terminate(r, msg) ==
    LET r1 == IF msg = "ReleaseResources" THEN Emit(r, <<EvTerminateRequest>>) ELSE r
    IN IF r1.c.allocation = Nil
       THEN exit(r1, AbortedUnscheduled)
       ELSE Emit(r1, <<AllocationKill>>)

\* PreStart that opens the task session before any allocation.
ReceivePreStart_StartsSession(r, askErr) ==
    LET r1 == Emit([r EXCEPT !.c.task = Ptr([ID |-> r.c.taskID])], <<RMAllocateRequest>>)
    IN IF askErr
       THEN [r1 EXCEPT !.err = "ask failed"]
       ELSE Emit(r1, <<DBStartTaskSession, RMSetGroupPriority, EvScheduled>>)

\* case actor.PreStart; askErr: the Ask of the resource manager failed.
ReceivePreStart(r, askErr) ==
    LET r1 == Emit([r EXCEPT !.c.task = Ptr([ID |-> r.c.taskID])], <<RMAllocateRequest>>)
    IN IF askErr
       THEN [r1 EXCEPT !.err = "ask failed"]
       ELSE Emit(r1, <<RMSetGroupPriority, EvScheduled>>)

\* IgnoreAllocation without the comparison of the IDs.
IgnoreAllocation_NoIDCheck(fields, msg) ==
    fields.task = Nil

\* The guard of receiveSchedulerMsg: the message is dropped.
IgnoreAllocation(fields, msg) ==
    fields.task = Nil \/ msg.ID # fields.task[1].ID

\* receiveSchedulerMsg that goes on when the session cannot be started.
receiveSchedulerMsg_IgnoresSessionError(r, msg, startErr) ==
    IF IgnoreAllocation(r.c, msg) THEN r
    ELSE IF Len(msg.Allocations) # 1
    THEN [r EXCEPT !.err = "Command should only receive an allocation of one container"]
    ELSE LET r1 == Emit(r, <<DBStartTaskSession>>)
             r2 == Emit([r1 EXCEPT !.c.allocation = Ptr(msg.Allocations[1])],
                        <<AllocationStart, EvAssigned>>)
         IN [r2 EXCEPT !.c.userFiles = Nil, !.c.additionalFiles = Nil]

\* receiveSchedulerMsg that counts the allocations only once the session is
\* started.
receiveSchedulerMsg_CountsAfterSession(r, msg, startErr) ==
    IF IgnoreAllocation(r.c, msg) THEN r
    ELSE LET r1 == Emit(r, <<DBStartTaskSession>>)
         IN IF startErr
            THEN [r1 EXCEPT !.err = "cannot start a new task session"]
            ELSE IF Len(msg.Allocations) # 1
            THEN [r1 EXCEPT !.err = "Command should only receive an allocation of one container"]
            ELSE LET r2 == Emit([r1 EXCEPT !.c.allocation = Ptr(msg.Allocations[1])],
                                <<AllocationStart, EvAssigned>>)
                 IN [r2 EXCEPT !.c.userFiles = Nil, !.c.additionalFiles = Nil]

\* command.receiveSchedulerMsg, case sproto.ResourcesAllocated; startErr: the
\* store fails to start the session.
receiveSchedulerMsg(r, msg, startErr) ==
    IF IgnoreAllocation(r.c, msg) THEN r
    ELSE IF Len(msg.Allocations) # 1
    THEN [r EXCEPT !.err = "Command should only receive an allocation of one container"]
    ELSE LET r1 == Emit(r, <<DBStartTaskSession>>)
         IN IF startErr
            THEN [r1 EXCEPT !.err = "cannot start a new task session"]
            ELSE LET r2 == Emit([r1 EXCEPT !.c.allocation = Ptr(msg.Allocations[1])],
                                <<AllocationStart, EvAssigned>>)
                 IN [r2 EXCEPT !.c.userFiles = Nil, !.c.additionalFiles = Nil]

\* case *apiv1.KillCommandRequest (the Kill requests of shells and
\* tensorboards are the same two calls).
ReceiveKillCommandRequest(r) ==
    Emit(terminate(r, "KillCommandRequest"), <<Respond>>)

\* A report handler that takes every termination for a success.
ReceiveTaskContainerStateChanged_IgnoresFailure(r, msg) ==
    LET r0 == [r EXCEPT !.c.container = Ptr(msg.Container)]
    IN IF msg.Container.State = Running
       THEN LET n == Len(msg.Addresses)
            IN Emit([r0 EXCEPT !.c.addresses = msg.Addresses,
                               !.c.proxyNames = Repeat(r.c.taskID, n)],
                    Repeat(ProxyRegister, n) \o <<EvContainerStarted>>)
       ELSE IF msg.Container.State = Terminated
       THEN exit(Emit([r0 EXCEPT !.c.proxyNames = <<>>],
                      Repeat(ProxyUnregister, Len(r0.c.proxyNames))),
                 ExitedSuccessfully)
       ELSE r0

\* A summary handler that answers whoever asks.
ReceiveGetSummary_NoFilter(r, msg) == Emit(r, <<Respond>>)

\* case getSummary
ReceiveGetSummary(r, msg) ==
    IF msg.userFilter = "" \/ r.c.owner.Username = msg.userFilter
    THEN Emit(r, <<Respond>>)
    ELSE r

\* case sproto.TaskContainerStateChanged
ReceiveTaskContainerStateChanged(r, msg) ==
    LET r0 == [r EXCEPT !.c.container = Ptr(msg.Container)]
    IN IF msg.Container.State = Running
       THEN LET n == Len(msg.Addresses)
            IN Emit([r0 EXCEPT !.c.addresses = msg.Addresses,
                               !.c.proxyNames = Repeat(r.c.taskID, n)],
                    Repeat(ProxyRegister, n) \o <<EvContainerStarted>>)
       ELSE IF msg.Container.State = Terminated
       THEN LET r1 == Emit([r0 EXCEPT !.c.proxyNames = <<>>],
                           Repeat(ProxyUnregister, Len(r0.c.proxyNames)))
                exitStatus == IF msg.Failure # Nil THEN msg.Failure[1]
                              ELSE ExitedSuccessfully
            IN exit(r1, exitStatus)
       ELSE r0

\* readinessChecksPass that removes no check: it passes on a line that
\* satisfies every check by itself.
readinessChecksPass_NoRemoval(checks, log) ==
    [checks |-> checks, pass |-> \A name \in checks : check(name, log)]

\* command.readinessChecksPass: the checks left after the line, and whether
\* none is left.
readinessChecksPass(checks, log) ==
    LET left == {name \in checks : ~check(name, log)}
    IN [checks |-> left, pass |-> left = {}]

\* case sproto.ContainerLog
ReceiveContainerLog(r, log) ==
    LET p == readinessChecksPass(r.c.readinessChecks, log)
        r1 == IF r.c.readinessMessageSent THEN r
              ELSE [r EXCEPT !.c.readinessChecks = p.checks]
        r2 == IF ~r.c.readinessMessageSent /\ p.pass
              THEN Emit([r1 EXCEPT !.c.readinessMessageSent = TRUE], <<EvServiceReady>>)
              ELSE r1
    IN Emit(r2, <<EvLog>>)

\* case terminateForGC
ReceiveTerminateForGC(r) == Emit(r, <<SelfStop>>)

\* case actor.PostStop
ReceivePostStop(r) == terminate(r, "PostStop")

(* ------------------------ checkpoint GC handlers ----------------------- *)
\* checkpointGCTask.Receive, case actor.PreStart
GCReceivePreStart(r) ==
    Emit([r EXCEPT !.c.task = Ptr([ID |-> gcTaskID])], <<RMAllocateRequest>>)

\* checkpointGCTask.Receive, case sproto.ResourcesAllocated; startErr: the
\* store fails to start the session; queryErr: the checkpoint query fails.
GCReceiveResourcesAllocated(r, msg, startErr, queryErr) ==
    LET r1 == Emit(r, <<DBStartTaskSession>>)
    IN IF startErr
       THEN [r1 EXCEPT !.err = "cannot start a new task session for a GC task"]
       ELSE IF queryErr
       THEN [r1 EXCEPT !.err = "checkpoint query failed"]
       ELSE Emit(r1, Repeat(AllocationStart, Len(msg.Allocations)))

\* A release handler that gives in to the request and stops the task.
GCReceiveReleaseResources_Stops(r) == Emit(r, <<SelfStop>>)

\* checkpointGCTask.Receive, case sproto.ReleaseResources
GCReceiveReleaseResources(r) == r

\* checkpointGCTask.Receive, case sproto.TaskContainerStateChanged
GCReceiveTaskContainerStateChanged(r, msg) ==
    IF msg.Container.State # Terminated THEN r ELSE Emit(r, <<SelfStop>>)

\* checkpointGCTask.Receive, case sproto.ContainerLog
GCReceiveContainerLog(r, log) ==
    [r EXCEPT !.c.logs = Append(@, log)]

\* checkpointGCTask.Receive, case actor.PostStop
GCReceivePostStop(r) ==
    IF r.c.task # Nil THEN Emit(r, <<DBDeleteTaskSession>>) ELSE r

\* command.State
State(fields) ==
    IF fields.container # Nil THEN fields.container[1].State
    ELSE IF fields.exitStatus # Nil THEN Terminated
    ELSE "PENDING"

\* The place of a state in the progression Pending, Assigned, Pulling,
\* Starting, Running, Terminated.
StateRank(state) ==
    IF state = "PENDING" THEN 0
    ELSE CHOOSE i \in DOMAIN ContainerStates : ContainerStates[i] = state

\* command.toCommand: the state and the exit status of the snapshot that
\* newSummary renders.
toCommand(fields) ==
    [ State |-> State(fields),
      ExitStatus |-> IF fields.exitStatus # Nil THEN fields.exitStatus[1] ELSE "" ]

(* ------------------------------ the actor ------------------------------ *)
\* The fields of a command as its constructor leaves them.
NewCommand(checks) ==
    [ taskID |-> taskID,
      owner |-> [Username |-> ownerUsername],
      task |-> Nil,
      allocation |-> Nil,
      userFiles |-> Ptr("userFiles"),
      additionalFiles |-> Ptr("additionalFiles"),
      container |-> Nil,
      exitStatus |-> Nil,
      proxyNames |-> <<>>,
      addresses |-> <<>>,
      readinessChecks |-> checks,
      readinessMessageSent |-> FALSE ]

\* The fields of a checkpointGCTask as its constructor leaves them.
NewCheckpointGCTask == [task |-> Nil, logs |-> <<>>]

\* The GC task actor before its first message.
InitGCTask ==
    /\ t = NewCheckpointGCTask
    /\ tLifecycle = "new"
    /\ tSessions = {}
    /\ tRuntime = <<>>
    /\ tOut = <<>>
    /\ tHist = [lastMsg |-> "", lastID |-> "", lastState |-> "", err |-> "", msgs |-> 0]

\* The command actor before its first message, with the given checks.
InitCommand(checks) ==
    /\ c = NewCommand(checks)
    /\ hist = [ lastMsg |-> "", lastID |-> "", lastLen |-> 0, err |-> "", msgs |-> 0,
                startFailed |-> FALSE,
                lastState |-> "", lastFailure |-> Nil, lastFilter |-> Nil,
                matched |-> FALSE, succession |-> FALSE,
                killedUnallocated |-> FALSE,
                registered |-> checks, logged |-> FALSE, seen |-> {} ]
    /\ lifecycle = "new"
    /\ sessions = {}
    /\ runtime = <<>>
    /\ timers = 0
    /\ sent = [e \in Counted |-> 0]
    /\ stepOut = <<>>

Init ==
    /\ \E checks \in {1..k : k \in 0..MaxChecks} : InitCommand(checks)
    /\ InitGCTask

\* The handler's start: the fields as they are, no call made, no error.
Now == Result(c, <<>>, "")

\* The actor system after a handler returned r: the fields are the handler's,
\* its calls reach the collaborators, and a returned error, a panic or
\* Self().Stop() ends the actor, which is then handed PostStop.  rt and tm
\* are the runtime and the timers as the message's delivery left them.
Step(r, startErr, rt, tm, h) ==
    /\ c' = r.c
    /\ stepOut' = r.out
    /\ sent' = [e \in Counted |-> sent[e] + Occurrences(r.out, e)]
    /\ sessions' = SessionsAfter(sessions, r.out, r.c.taskID, startErr)
    /\ runtime' = rt \o Repeat(0, Occurrences(r.out, AllocationStart))
    /\ timers' = tm + Occurrences(r.out, NotifyAfter)
    /\ lifecycle' = IF lifecycle = "stopping" THEN "stopped"
                    ELSE IF r.err # "" \/ Occurrences(r.out, SelfStop) > 0 THEN "stopping"
                    ELSE "active"
    /\ hist' = [h EXCEPT !.err = r.err,
                         !.startFailed = startErr /\ Occurrences(r.out, DBStartTaskSession) > 0,
                         !.lastLen = IF h.lastMsg = "ResourcesAllocated" THEN @ ELSE 0,
                         !.lastFilter = IF h.lastMsg = "getSummary" THEN @ ELSE Nil]
    /\ UNCHANGED gcVars

PreStart ==
    /\ lifecycle = "new"
    /\ \E askErr \in BOOLEAN :
          Step(ReceivePreStart(Now, askErr), FALSE, runtime, timers,
               [hist EXCEPT !.lastMsg = "PreStart"])

ResourcesAllocated ==
    /\ lifecycle = "active"
    /\ hist.msgs < MaxMsgs
    /\ \E id \in TaskIDs, n \in 0..MaxAllocations, startErr \in BOOLEAN :
          LET first == Len(runtime) + 1
              msg == [ID |-> id, Allocations |-> [i \in 1..n |-> first + i - 1]]
          IN Step(receiveSchedulerMsg(Now, msg, startErr), startErr, runtime, timers,
                  [hist EXCEPT !.lastMsg = "ResourcesAllocated",
                               !.lastID = id,
                               !.lastLen = n,
                               !.msgs = @ + 1,
                               !.matched = @ \/ id = c.taskID])

KillCommandRequest ==
    /\ lifecycle = "active"
    /\ hist.msgs < MaxMsgs
    /\ Step(ReceiveKillCommandRequest(Now), FALSE, runtime, timers,
            [hist EXCEPT !.lastMsg = "KillCommandRequest",
                         !.msgs = @ + 1,
                         !.succession = @ \/ hist.lastMsg = "KillCommandRequest",
                         !.killedUnallocated = @ \/ ~hist.matched])

\* The runtime reports the next state of a container the actor started.
TaskContainerStateChanged ==
    /\ lifecycle = "active"
    /\ hist.msgs < MaxMsgs
    /\ \E i \in DOMAIN runtime, s \in DOMAIN ContainerStates,
          n \in 0..MaxAddresses, failed \in BOOLEAN :
          /\ s > runtime[i]
          /\ ContainerStates[s] # Running => n = 0
          /\ ContainerStates[s] # Terminated => ~failed
          /\ LET msg == [ Container |-> [ID |-> i, State |-> ContainerStates[s]],
                          Addresses |-> [j \in 1..n |-> j],
                          Failure |-> IF failed THEN Ptr(FailureError) ELSE Nil ]
             IN Step(ReceiveTaskContainerStateChanged(Now, msg), FALSE,
                     [runtime EXCEPT ![i] = s], timers,
                     [hist EXCEPT !.lastMsg = "TaskContainerStateChanged",
                                  !.lastState = msg.Container.State,
                                  !.lastFailure = msg.Failure,
                                  !.msgs = @ + 1])

\* A container the actor started, and that has not reported Terminated,
\* writes a line.
ContainerLog ==
    /\ lifecycle = "active"
    /\ hist.msgs < MaxMsgs
    /\ \E i \in DOMAIN runtime :
          \A s \in DOMAIN ContainerStates :
              ContainerStates[s] = Terminated => runtime[i] < s
    /\ \E log \in SUBSET hist.registered :
          Step(ReceiveContainerLog(Now, log), FALSE, runtime, timers,
               [hist EXCEPT !.lastMsg = "ContainerLog",
                            !.msgs = @ + 1,
                            !.logged = TRUE,
                            !.seen = @ \cup log])

\* Somebody asks for the command's summary.
GetSummary ==
    /\ lifecycle = "active"
    /\ \E userFilter \in UserFilters :
          Step(ReceiveGetSummary(Now, [userFilter |-> userFilter]), FALSE, runtime, timers,
               [hist EXCEPT !.lastMsg = "getSummary", !.lastFilter = Ptr(userFilter)])

\* A timer armed by exit delivers its message.
TerminateForGC ==
    /\ lifecycle = "active"
    /\ timers > 0
    /\ Step(ReceiveTerminateForGC(Now), FALSE, runtime, timers - 1,
            [hist EXCEPT !.lastMsg = "terminateForGC"])

PostStop ==
    /\ lifecycle = "stopping"
    /\ Step(ReceivePostStop(Now), FALSE, runtime, timers,
            [hist EXCEPT !.lastMsg = "PostStop"])

Next ==
    \/ PreStart
    \/ ResourcesAllocated
    \/ KillCommandRequest
    \/ GetSummary
    \/ TaskContainerStateChanged
    \/ ContainerLog
    \/ TerminateForGC
    \/ PostStop

Spec == Init /\ [][Next]_vars

\* The command where every armed timer delivers its message and the actor
\* system delivers PostStop to an actor that stops.
SpecFair == Spec /\ WF_vars(TerminateForGC) /\ WF_vars(PostStop)

(* --------------------------- the GC task actor -------------------------- *)
\* The GC handler's start.
GCNow == Result(t, <<>>, "")

\* The actor system after a handler of the GC task returned r; id is the ID
\* its session calls carry, rt the runtime as the delivery left it.
GCStep(r, id, startErr, rt, h) ==
    /\ t' = r.c
    /\ tOut' = r.out
    /\ tSessions' = SessionsAfter(tSessions, r.out, id, startErr)
    /\ tRuntime' = rt \o Repeat(0, Occurrences(r.out, AllocationStart))
    /\ tLifecycle' = IF tLifecycle = "stopping" THEN "stopped"
                     ELSE IF r.err # "" \/ Occurrences(r.out, SelfStop) > 0 THEN "stopping"
                     ELSE "active"
    /\ tHist' = [h EXCEPT !.err = r.err]
    /\ UNCHANGED cmdVars

GCPreStart ==
    /\ tLifecycle = "new"
    /\ GCStep(GCReceivePreStart(GCNow), gcTaskID, FALSE, tRuntime,
              [tHist EXCEPT !.lastMsg = "PreStart"])

GCResourcesAllocated ==
    /\ tLifecycle = "active"
    /\ tHist.msgs < MaxMsgs
    /\ \E id \in GCTaskIDs, n \in 0..MaxAllocations, startErr \in BOOLEAN,
          queryErr \in BOOLEAN :
          LET first == Len(tRuntime) + 1
              msg == [ID |-> id, Allocations |-> [i \in 1..n |-> first + i - 1]]
          IN GCStep(GCReceiveResourcesAllocated(GCNow, msg, startErr, queryErr),
                    msg.ID, startErr, tRuntime,
                    [tHist EXCEPT !.lastMsg = "ResourcesAllocated",
                                  !.lastID = id,
                                  !.msgs = @ + 1])

\* The resource manager asks the task to give its resources back.
GCReleaseResources ==
    /\ tLifecycle = "active"
    /\ tHist.msgs < MaxMsgs
    /\ GCStep(GCReceiveReleaseResources(GCNow), gcTaskID, FALSE, tRuntime,
              [tHist EXCEPT !.lastMsg = "ReleaseResources", !.msgs = @ + 1])

\* The runtime reports the next state of a container the task started.
GCTaskContainerStateChanged ==
    /\ tLifecycle = "active"
    /\ tHist.msgs < MaxMsgs
    /\ \E i \in DOMAIN tRuntime, s \in DOMAIN ContainerStates, failed \in BOOLEAN :
          /\ s > tRuntime[i]
          /\ ContainerStates[s] # Terminated => ~failed
          /\ LET msg == [ Container |-> [ID |-> i, State |-> ContainerStates[s]],
                          Failure |-> IF failed THEN Ptr(FailureError) ELSE Nil ]
             IN GCStep(GCReceiveTaskContainerStateChanged(GCNow, msg), gcTaskID, FALSE,
                       [tRuntime EXCEPT ![i] = s],
                       [tHist EXCEPT !.lastMsg = "TaskContainerStateChanged",
                                     !.lastState = ContainerStates[s],
                                     !.msgs = @ + 1])

\* A container the task started, and that has not reported Terminated,
\* writes a line.
GCContainerLog ==
    /\ tLifecycle = "active"
    /\ tHist.msgs < MaxMsgs
    /\ \E i \in DOMAIN tRuntime :
          \A s \in DOMAIN ContainerStates :
              ContainerStates[s] = Terminated => tRuntime[i] < s
    /\ GCStep(GCReceiveContainerLog(GCNow, "line"), gcTaskID, FALSE, tRuntime,
              [tHist EXCEPT !.lastMsg = "ContainerLog", !.msgs = @ + 1])

GCPostStop ==
    /\ tLifecycle = "stopping"
    /\ GCStep(GCReceivePostStop(GCNow), gcTaskID, FALSE, tRuntime,
              [tHist EXCEPT !.lastMsg = "PostStop"])

NextGC ==
    \/ GCPreStart
    \/ GCResourcesAllocated
    \/ GCReleaseResources
    \/ GCTaskContainerStateChanged
    \/ GCContainerLog
    \/ GCPostStop

InitGC == InitCommand({}) /\ InitGCTask

SpecGC == InitGC /\ [][NextGC]_vars

(* ------------------------------- claims -------------------------------- *)
\* The handler of the step was the named one.
Handled(msg) == hist'.lastMsg = msg /\ hist' # hist
\* The calls of kind e made by the step.
Made(e) == Occurrences(stepOut', e)

\* C1: two Kill requests handled in succession produce, over the whole run,
\* exactly one Exited event and exactly one ResourcesReleased: never more
\* than one of each, and one of each once the actor has stopped.
C1_TwoKillsOneExit ==
    hist.succession =>
        /\ sent[EvExited] <= 1
        /\ sent[RMResourcesReleased] <= 1
        /\ lifecycle = "stopped" =>
              sent[EvExited] = 1 /\ sent[RMResourcesReleased] = 1

\* C2: a ResourcesAllocated whose ID differs from the ID of the actor's own
\* AllocateRequest opens no session, starts no container, publishes no
\* Assigned event (it makes no call at all) and leaves every field unchanged.
C2_MismatchDropped ==
    [][ (Handled("ResourcesAllocated") /\ c.task # Nil /\ hist'.lastID # c.task[1].ID)
            => /\ c' = c
               /\ stepOut' = <<>>
               /\ sessions' = sessions
               /\ runtime' = runtime
               /\ sent' = sent
               /\ lifecycle' = lifecycle ]_vars

\* A mismatched ResourcesAllocated was handled by an actor awaiting its grant.
C2_Witness ==
    /\ hist.lastMsg = "ResourcesAllocated"
    /\ hist.lastID = "T2"
    /\ c.task = Ptr([ID |-> "T1"])
    /\ c.allocation = Nil
    /\ c.userFiles # Nil
    /\ lifecycle = "active"

\* C3: once the actor has exited, no later message opens a session or starts
\* a container: a ResourcesAllocated delivered after the exit is discarded,
\* also when it carries the actor's own task ID.
C3_DiscardedAfterExit ==
    [][ c.exitStatus # Nil
            => /\ sessions' \subseteq sessions
               /\ Made(AllocationStart) = 0 ]_vars

C5_SessionOnlyAfterAllocation ==
    /\ [](sessions # {} => sessions = {taskID} /\ hist.matched)
    /\ [][ Made(DBStartTaskSession) > 0
               => Handled("ResourcesAllocated") /\ hist'.lastID = c.taskID ]_vars

\* A session exists after a matching ResourcesAllocated was accepted.
C5_Witness ==
    /\ sessions = {taskID}
    /\ hist.matched
    /\ c.allocation # Nil

\* C6: every handler that exits (publishes Exited) calls the session delete
\* as part of the exit, and once the actor is stopped no session for the
\* task ID remains in the store.
C6_NoSessionOnceStopped ==
    /\ Occurrences(stepOut, EvExited) > 0 =>
          \E i \in Positions(stepOut, EvExited), j \in Positions(stepOut, DBDeleteTaskSession) :
              i < j
    /\ lifecycle = "stopped" => taskID \notin sessions

\* C7: a Kill handled while the actor holds an allocation only forwards the
\* kill to the allocation (and answers): no Exited event, no
\* ResourcesReleased, no timer, no change of exitStatus or of any field; an
\* actor holding an allocation exits only in the handler of a container
\* report with state Terminated.
C7_KillAllocatedOnlyForwards ==
    [][ c.allocation # Nil
            => /\ Handled("KillCommandRequest")
                    => /\ stepOut' = <<AllocationKill, Respond>>
                       /\ c' = c
                       /\ timers' = timers
                       /\ sent' = sent
                       /\ lifecycle' = lifecycle
               /\ (Made(EvExited) > 0 \/ Made(RMResourcesReleased) > 0
                     \/ Made(NotifyAfter) > 0 \/ c'.exitStatus # c.exitStatus)
                    => /\ Handled("TaskContainerStateChanged")
                       /\ c'.container[1].State = Terminated ]_vars

\* A Kill was forwarded to the allocation of an actor that has not exited.
C7_Witness ==
    /\ hist.lastMsg = "KillCommandRequest"
    /\ c.allocation # Nil
    /\ c.exitStatus = Nil
    /\ stepOut = <<AllocationKill, Respond>>
    /\ sent[EvExited] = 0

\* C8: a Kill handled while the actor has no allocation terminates it in that
\* step: exitStatus is the aborted-without-being-scheduled message, and one
\* Exited event, one ResourcesReleased and one timer are issued.
C8_KillUnallocatedExits ==
    [][ (Handled("KillCommandRequest") /\ c.allocation = Nil)
            => /\ c'.exitStatus = Ptr(AbortedUnscheduled)
               /\ Made(EvExited) = 1
               /\ Made(RMResourcesReleased) = 1
               /\ Made(NotifyAfter) = 1
               /\ timers' = timers + 1
               /\ Made(AllocationKill) = 0 ]_vars

\* An actor awaiting its grant was killed and has exited.
C8_Witness ==
    /\ hist.lastMsg = "KillCommandRequest"
    /\ ~hist.matched
    /\ c.allocation = Nil
    /\ c.exitStatus = Ptr(AbortedUnscheduled)
    /\ sent[EvExited] = 1
    /\ timers = 1

\* C9: the handler of a Terminated report sends one Unregister per proxy name
\* registered before it publishes Exited and before it sends
\* ResourcesReleased, and in every state from the Exited event onwards the
\* actor holds no proxy name.
C9_UnregisteredByExit ==
    [][ /\ (Handled("TaskContainerStateChanged") /\ c'.container[1].State = Terminated)
            => /\ Made(ProxyUnregister) = Len(c.proxyNames)
               /\ \A i \in Positions(stepOut', ProxyUnregister) :
                     /\ \A j \in Positions(stepOut', EvExited) : i < j
                     /\ \A j \in Positions(stepOut', RMResourcesReleased) : i < j
        /\ sent'[EvExited] > 0 => c'.proxyNames = <<>> ]_vars

\* C10: the ServiceReady event is published at most once, and in the handler
\* of exactly the first log line after which every registered check is
\* satisfied by some line handled so far.
C10_ReadyExactlyOnce ==
    [][ /\ sent'[EvServiceReady] <= 1
        /\ Made(EvServiceReady) <= 1
        /\ Made(EvServiceReady) = 1
             <=> /\ Handled("ContainerLog")
                 /\ hist.registered \subseteq hist'.seen
                 /\ ~(hist.logged /\ hist.registered \subseteq hist.seen) ]_vars

\* Two checks were satisfied by different lines, ServiceReady was published
\* once, and a later line published nothing but its log event.
C10_Witness ==
    /\ Cardinality(hist.registered) = 2
    /\ sent[EvServiceReady] = 1
    /\ c.readinessMessageSent
    /\ hist.lastMsg = "ContainerLog"
    /\ stepOut = <<EvLog>>


\* C12: right after the command handled a Terminated container report, its
\* snapshot shows the state Terminated and the exit status "command exited
\* successfully" when the report carries no failure, the failure's message
\* otherwise.
C12_TerminatedSnapshot ==
    [][ Handled("TaskContainerStateChanged") /\ hist'.lastState = Terminated =>
          /\ toCommand(c').State = Terminated
          /\ toCommand(c').ExitStatus =
                 IF hist'.lastFailure # Nil THEN hist'.lastFailure[1]
                 ELSE ExitedSuccessfully ]_vars

\* A Terminated report with a failure was just handled.
C12_Witness ==
    /\ hist.lastMsg = "TaskContainerStateChanged"
    /\ hist.lastState = Terminated
    /\ hist.lastFailure = Ptr(FailureError)
    /\ toCommand(c) = [State |-> Terminated, ExitStatus |-> FailureError]

\* C13: over any sequence of messages the command's State never moves back
\* in the progression Pending, Assigned, Pulling, Starting, Running,
\* Terminated, and once the exit status is set the State is Terminated in
\* every state until the actor has stopped.
C13_StateMonotonic ==
    [][ lifecycle' # "stopped" =>
          /\ StateRank(State(c')) >= StateRank(State(c))
          /\ c'.exitStatus # Nil => State(c') = Terminated ]_vars

\* C14: a Kill handled once the command has exited (its exit status is set
\* and Exited was published) changes no field, publishes no event, sends
\* nothing to the resource manager and forwards no kill to the allocation:
\* the handler makes no call but its reply.
C14_KillAfterExitNoOp ==
    [][ Handled("KillCommandRequest") /\ c.exitStatus # Nil =>
          /\ c' = c
          /\ \A i \in DOMAIN stepOut' : stepOut'[i] = Respond
          /\ sessions' = sessions
          /\ timers' = timers ]_vars

\* C15: the terminateForGC that an exited command handles stops the actor
\* for good, and the stop, PostStop included, has no further effect: no
\* Exited event, no ResourcesReleased, no kill forwarded to the allocation
\* and no new GC timer.
C15_GCStopNoEffect ==
    [][ /\ Handled("terminateForGC") =>
              c.exitStatus # Nil /\ c' = c /\ lifecycle' = "stopping"
        /\ lifecycle = "stopped" => lifecycle' = "stopped"
        /\ Handled("PostStop") /\ hist.lastMsg = "terminateForGC" =>
              /\ Made(EvExited) = 0
              /\ Made(RMResourcesReleased) = 0
              /\ Made(AllocationKill) = 0
              /\ Made(NotifyAfter) = 0 ]_vars

\* C16: over its lifetime the command calls Start on an allocation at most
\* once and opens at most one session, so a second ResourcesAllocated with
\* its own ID starts no second container.
C16_StartedAtMostOnce ==
    /\ sent[AllocationStart] <= 1
    /\ sent[DBStartTaskSession] <= 1
    /\ Len(runtime) <= 1

\* C19: a getSummary is answered exactly when its filter is empty or equals
\* the username of the command's owner, and handling it changes no field and
\* makes no other call: nothing goes to the resource manager, the proxy, the
\* event stream, the session store or the allocation.
C19_SummaryFilteredNoEffect ==
    [][ Handled("getSummary") =>
          /\ Made(Respond) = 1 <=>
                 hist'.lastFilter \in {Ptr(""), Ptr(c.owner.Username)}
          /\ Made(Respond) = Len(stepOut')
          /\ Made(Respond) <= 1
          /\ c' = c
          /\ <<lifecycle', sessions', runtime', timers', sent'>>
                 = <<lifecycle, sessions, runtime, timers, sent>> ]_vars

\* A getSummary that carries another user's name was just handled by a
\* command whose container runs, and got no answer.
C19_Witness ==
    /\ hist.lastMsg = "getSummary"
    /\ hist.lastFilter = Ptr("bob")
    /\ State(c) = Running
    /\ stepOut = <<>>

\* C20: a ResourcesAllocated that carries the command's own ID and a number
\* of allocations other than one fails fatally before anything else is done:
\* the handler returns an error that stops the actor, makes no call (no
\* session, no container start, no Assigned event) and changes no field, so
\* an unset allocation stays unset.
C20_WrongCountFailsFirst ==
    [][ Handled("ResourcesAllocated") /\ c.task # Nil
            /\ hist'.lastID = c.task[1].ID /\ hist'.lastLen # 1
          => /\ hist'.err # ""
             /\ lifecycle' = "stopping"
             /\ stepOut' = <<>>
             /\ c' = c
             /\ sessions' = sessions
             /\ runtime' = runtime ]_vars

\* A grant with the command's ID and two allocations was just handled by a
\* command that had no allocation: it failed and the allocation is unset.
C20_Witness ==
    /\ hist.lastMsg = "ResourcesAllocated"
    /\ hist.lastID = c.taskID
    /\ hist.lastLen = 2
    /\ hist.err # ""
    /\ lifecycle = "stopping"
    /\ c.allocation = Nil
    /\ sessions = {}

\* C21: when the store fails to start the session while the command handles
\* a ResourcesAllocated with its own ID, the handler returns an error and
\* leaves every field as it was: no container is started, no Assigned event
\* is published, an unset allocation stays unset and userFiles and
\* additionalFiles are not cleared; the failed StartTaskSession is its only
\* call.
C21_SessionFailureAborts ==
    [][ Handled("ResourcesAllocated") /\ hist'.startFailed =>
          /\ hist'.lastID = c.task[1].ID
          /\ hist'.err # ""
          /\ c' = c
          /\ stepOut' = <<DBStartTaskSession>>
          /\ Made(AllocationStart) = 0 /\ Made(EvAssigned) = 0
          /\ sessions' = sessions
          /\ runtime' = runtime ]_vars

\* The session start of a first grant with the command's ID just failed: the
\* allocation is unset, the files are kept and no container was started.
C21_Witness ==
    /\ hist.lastMsg = "ResourcesAllocated"
    /\ hist.startFailed
    /\ hist.lastID = c.taskID
    /\ hist.err # ""
    /\ c.allocation = Nil
    /\ c.userFiles # Nil /\ c.additionalFiles # Nil
    /\ runtime = <<>>
    /\ sessions = {}

\* C22: Exited is the last event of the command: once an Exited event has
\* been published, no handler publishes a log, ready, assigned or
\* container-started event or another Exited.
C22_ExitedIsFinal ==
    [][ sent[EvExited] > 0 =>
          \A e \in {EvLog, EvServiceReady, EvAssigned, EvContainerStarted, EvExited} :
              Made(e) = 0 ]_vars

\* C23: every handler that publishes an Exited event arms the GC timer in the
\* same step; the Terminated report of a container, killed or not, is such a
\* step; and, the timer's message being delivered eventually, a command that
\* has exited is eventually stopped.
C23_ExitLeadsToStop ==
    /\ [][ /\ Made(EvExited) = Made(NotifyAfter)
           /\ Made(EvExited) > 0 => timers' > timers
           /\ Handled("TaskContainerStateChanged") /\ hist'.lastState = Terminated =>
                 Made(EvExited) = 1 ]_vars
    /\ (sent[EvExited] > 0 ~> lifecycle = "stopped")

\* A command whose allocated container reported Terminated has exited, and
\* the timer's terminateForGC and the PostStop after it have stopped it.
C23_Witness ==
    /\ sent[EvExited] > 0
    /\ sent[NotifyAfter] > 0
    /\ c.allocation # Nil
    /\ State(c) = Terminated
    /\ hist.lastMsg = "PostStop"
    /\ lifecycle = "stopped"
    /\ sessions = {}

(* ------------------------- claims on the GC task ------------------------ *)
\* The step delivers a message of type msg to the GC task.
GCHandled(msg) == tHist'.lastMsg = msg /\ tHist' # tHist

\* How many times the GC task's handler of this step makes the call e.
GCMade(e) == Occurrences(tOut', e)

\* The step delivers a Terminated container report to the GC task.
GCTerminatedReport ==
    GCHandled("TaskContainerStateChanged") /\ tHist'.lastState = Terminated

\* The GC task's handling of ReleaseResources changes nothing anywhere.
GCReleaseIgnored ==
    GCHandled("ReleaseResources") =>
        /\ t' = t
        /\ tOut' = <<>>
        /\ tLifecycle' = tLifecycle
        /\ tSessions' = tSessions
        /\ tRuntime' = tRuntime

C17_GCMismatchDropped ==
    [][ GCHandled("ResourcesAllocated") /\ t.task # Nil
            /\ tHist'.lastID # t.task[1].ID
          => /\ GCMade(DBStartTaskSession) = 0
             /\ GCMade(AllocationStart) = 0
             /\ tSessions' = tSessions
             /\ tRuntime' = tRuntime ]_vars

\* C18: the step in which the GC task handles a Terminated container report
\* sends ResourcesReleased to the resource manager and stops the task, and
\* the PostStop that follows deletes the task's session.
C18_GCReleasesOnTerminated ==
    [][ /\ GCTerminatedReport =>
              GCMade(RMResourcesReleased) = 1 /\ tLifecycle' = "stopping"
        /\ GCHandled("PostStop") => GCMade(DBDeleteTaskSession) = 1 ]_vars

====
